---- MODULE Spec2Model ----
(***************************************************************************)
(* Model of MAESTRO/Multiome_BarcodeMap.py: the barcodemap pipeline.       *)
(*                                                                         *)
(* One invocation of barcodemap() is a straight-line run: makedirs, load   *)
(* the two count matrices, read the two barcode libraries and build the    *)
(* two dictionaries, translate / intersect / index, select from the two    *)
(* matrices, stack, and write three files.  Any exception other than the   *)
(* OSError swallowed at lines 96-99 propagates and ends the run.           *)
(*                                                                         *)
(* A matrix is modelled by the identity of its rows and columns: rows is   *)
(* the sequence of original row positions (features) and cols the          *)
(* sequence of original column positions (cells) that it holds, so a       *)
(* selection keeps track of which feature / cell every row / column is.    *)
(*                                                                         *)
(* Spec is one run.  SpecTwoRuns is two runs in sequence on the same       *)
(* inputs and the same file system (the second run finds whatever the      *)
(* first run left behind).                                                 *)
(*                                                                         *)
(* The file reads free names it never binds (separator and numpy in the    *)
(* plain branch, atac and rna at lines 160-161, feature and passed_gene at *)
(* line 176) and ends, at line 184, with a stray colon.  The statements    *)
(* are modelled as the calls they spell; a statement that reads a free     *)
(* name either raises NameError or, where the star imports of lines 22-23  *)
(* bind the name, goes on.                                                 *)
(***************************************************************************)
EXTENDS Integers, Sequences, FiniteSets, TLC

\* ------------------------------------------------------------------ bounds
MaxBarcodes == 2
MaxLib == 2
MaxFeatures == 2

\* ----------------------------------------------------------- vocabularies
AtacNames == {"A1", "A2"}
RnaNames == {"R1", "R2"}
\* the working directory, against which a relative path is resolved
cwd == "."
\* --directory and --outprefix, at their defaults (lines 86 and 88)
directory == "MAESTRO"
outprefix == "MAESTRO"
GeneFile == "_multiome_gene_count.h5"
PeakFile == "_multiome_peak_count.h5"
FeatureFile == "_multiome_feature_count.h5"

VARIABLES
    rna_to_atac,            \* argument: translation direction
    atac_barcodes,          \* barcode list of the peak matrix (one per column)
    rna_barcodes,           \* barcode list of the gene matrix (one per column)
    n_atac_features,        \* len(atac_features): rows of the peak matrix
    n_rna_features,         \* len(rna_features): rows of the gene matrix
    atac_barcode_lib_list,  \* lines of the ATAC barcode library file, stripped
    rna_barcode_lib_list,   \* lines of the RNA barcode library file, stripped
    pc,                     \* the statement group the run is at
    status,                 \* "running", "failed" (exception left barcodemap), "done"
    error,                  \* kind of the exception that ended the run, or "none"
    bound,                  \* names of the computed locals that are bound
    atac_rna_dict,
    rna_atac_dict,
    barcode_overlapped,
    rna_barcode_idx,
    atac_barcode_idx,
    genematrix_filtered,
    peakmatrix_filtered,
    dir_exists,             \* file system: the output directory exists
    files,                  \* file system: paths of the files written so far
    written,                \* paths written by the current run
    run,                    \* number of the current run
    first_overlapped        \* {barcode_overlapped of the first run}, {} before it is computed

inputs == <<rna_to_atac, atac_barcodes, rna_barcodes, n_atac_features,
            n_rna_features, atac_barcode_lib_list, rna_barcode_lib_list>>
dicts == <<atac_rna_dict, rna_atac_dict>>
indices == <<barcode_overlapped, rna_barcode_idx, atac_barcode_idx>>
filtered == <<genematrix_filtered, peakmatrix_filtered>>
filesystem == <<dir_exists, files, written>>
vars == <<inputs, pc, status, error, bound, dicts, indices, filtered,
          filesystem, run, first_overlapped>>

\* ----------------------------------------------------------------- helpers
SeqsUpTo(S, lo, hi) == UNION {[1..n -> S] : n \in lo..hi}

Range(s) == {s[i] : i \in DOMAIN s}

Min(a, b) == IF a < b THEN a ELSE b

EmptyDict == [k \in {} |-> k]

EmptyMatrix == [rows |-> <<>>, cols |-> <<>>]

\* list(s) for a Python set s of strings: every element once, in the
\* iteration order of the hash table, which depends on the per-process
\* string hash seed; any order can come out.
ListOfSet(S) ==
    {s \in [1..Cardinality(S) -> S] : \A i, j \in 1..Cardinality(S) : s[i] = s[j] => i = j}

\* dict(zip(keys, vals)): zip stops at the shorter list; a key that occurs
\* more than once keeps the value of its last occurrence.
DictOfZip(keys, vals) ==
    LET n == Min(Len(keys), Len(vals))
        Last(k) == CHOOSE i \in 1..n : keys[i] = k /\ \A j \in 1..n : keys[j] = k => j <= i
    IN  [k \in {keys[i] : i \in 1..n} |-> vals[Last(k)]]

\* lst.index(x): 0-based position of the first occurrence (x is in lst).
Index(lst, x) ==
    (CHOOSE i \in 1..Len(lst) : lst[i] = x /\ \A j \in 1..Len(lst) : lst[j] = x => i <= j) - 1

\* [lst.index(i) for i in xs]
IndexAll(lst, xs) == [k \in 1..Len(xs) |-> Index(lst, xs[k])]

\* m[np.array(idx), :]: the rows of m at the 0-based positions idx, every column.
SelectRows(m, idx) ==
    [rows |-> [k \in 1..Len(idx) |-> m.rows[idx[k] + 1]], cols |-> m.cols]

\* an index that is out of range for axis 0 of m raises IndexError
RowsInRange(m, idx) == \A k \in 1..Len(idx) : idx[k] < Len(m.rows)

\* the loaded matrices: features as rows, cells as columns
genematrix ==
    [rows |-> [i \in 1..n_rna_features |-> i], cols |-> [j \in 1..Len(rna_barcodes) |-> j]]

peakmatrix ==
    [rows |-> [i \in 1..n_atac_features |-> i], cols |-> [j \in 1..Len(atac_barcodes) |-> j]]

\* the path a write call opens: the file name is outprefix + suffix, a
\* relative path, so it is resolved against the working directory.
OutPath(suffix) == [dir |-> cwd, prefix |-> outprefix, suffix |-> suffix]

\* --------------------------------------------------------------------- Init
\* The arguments and the contents of the input files.  Each matrix has at
\* least one cell and one feature (line 128 and 130 read element 0 of the
\* lists); the library files may be empty and may differ in length.  The
\* output directory may be there already.
Init ==
    /\ rna_to_atac \in BOOLEAN
    /\ atac_barcodes \in SeqsUpTo(AtacNames, 1, MaxBarcodes)
    /\ rna_barcodes \in SeqsUpTo(RnaNames, 1, MaxBarcodes)
    /\ n_atac_features \in 1..MaxFeatures
    /\ n_rna_features \in 1..MaxFeatures
    /\ atac_barcode_lib_list \in SeqsUpTo(AtacNames, 0, MaxLib)
    /\ rna_barcode_lib_list \in SeqsUpTo(RnaNames, 0, MaxLib)
    /\ pc = "makedirs"
    /\ status = "running"
    /\ error = "none"
    /\ bound = {}
    /\ atac_rna_dict = EmptyDict
    /\ rna_atac_dict = EmptyDict
    /\ barcode_overlapped = <<>>
    /\ rna_barcode_idx = <<>>
    /\ atac_barcode_idx = <<>>
    /\ genematrix_filtered = EmptyMatrix
    /\ peakmatrix_filtered = EmptyMatrix
    /\ dir_exists \in BOOLEAN
    /\ files = {}
    /\ written = {}
    /\ run = 1
    /\ first_overlapped = {}

\* an exception leaves barcodemap: the run ends where it is
Raise(kind) ==
    /\ status' = "failed"
    /\ error' = kind
    /\ UNCHANGED pc

Goto(next) ==
    /\ pc' = next
    /\ UNCHANGED <<status, error>>

\* lines 94-99: os.makedirs(directory), every OSError swallowed
Makedirs ==
    /\ status = "running" /\ pc = "makedirs"
    /\ \/ \* the directory is there: FileExistsError, swallowed
          /\ dir_exists
          /\ UNCHANGED dir_exists
       \/ \* the directory is created
          /\ ~dir_exists
          /\ dir_exists' = TRUE
       \/ \* it cannot be created (permissions, a file in the way): swallowed
          /\ ~dir_exists
          /\ UNCHANGED dir_exists
    /\ Goto("load")
    /\ UNCHANGED <<inputs, bound, dicts, indices, filtered, files, written, run,
                   first_overlapped>>

\* lines 101-143: load the peak and the gene matrix in the given format.
\* The readers are not part of this file; a reader either raises (a missing
\* or unreadable file) or returns a matrix with its feature and barcode
\* lists.  The plain branch reads the free names separator (line 102) and
\* numpy (line 111), which this file never binds: they are bound only if
\* one of the two star imports binds them, and raise NameError otherwise.
\* With --format left at its default "" (line 33) no branch is taken and
\* the matrices and their lists stay unbound.
LoadMatrices ==
    /\ status = "running" /\ pc = "load"
    /\ \/ \* fileformat = "plain", separator or numpy unbound
          /\ Raise("NameError")
          /\ UNCHANGED bound
       \/ \* fileformat is "plain", "h5" or "mtx" and a reader raises
          /\ Raise("OSError")
          /\ UNCHANGED bound
       \/ \* fileformat is "plain", "h5" or "mtx" and both matrices are read
          /\ Goto("readlibs")
          /\ bound' = bound \cup {"genematrix", "peakmatrix"}
       \/ \* fileformat = ""
          /\ Goto("readlibs")
          /\ UNCHANGED bound
    /\ UNCHANGED <<inputs, dicts, indices, filtered, filesystem, run,
                   first_overlapped>>

\* line 160-161 read the free names atac and rna, which this file never
\* binds.  Where the star imports do not bind them the statement raises
\* NameError; the reading under which the run goes on is that they are the
\* two library lists read just above.
atac == atac_barcode_lib_list

rna == rna_barcode_lib_list

\* line 160: atac_rna_dict = dict(zip(atac, rna))
BuildAtacRnaDict(a, r) == DictOfZip(a, r)

\* a slip in line 161: the second dictionary built like the first
BuildRnaAtacDict_SameOrder(a, r) == DictOfZip(a, r)

\* line 161: rna_atac_dict = dict(zip(rna, atac))
BuildRnaAtacDict(a, r) == DictOfZip(r, a)

\* lines 145-161: read the two library files, build the two dictionaries
ReadLibs ==
    /\ status = "running" /\ pc = "readlibs"
    /\ \/ /\ Raise("OSError")
          /\ UNCHANGED <<bound, dicts>>
       \/ /\ Raise("NameError")
          /\ UNCHANGED <<bound, dicts>>
       \/ /\ atac_rna_dict' = BuildAtacRnaDict(atac, rna)
          /\ rna_atac_dict' = BuildRnaAtacDict(atac, rna)
          /\ bound' = bound \cup {"atac_rna_dict", "rna_atac_dict"}
          /\ Goto("translate")
    /\ UNCHANGED <<inputs, indices, filtered, filesystem, run,
                   first_overlapped>>

\* [d[i] for i in xs], every i a key of d
Translate(d, xs) == [k \in 1..Len(xs) |-> d[xs[k]]]

\* the list on the left of the intersection (line 165 / 170)
TranslatedBarcodes ==
    IF rna_to_atac THEN Translate(rna_atac_dict, rna_barcodes)
    ELSE Translate(atac_rna_dict, atac_barcodes)

\* the barcode list of the matrix that is not translated
OtherBarcodes == IF rna_to_atac THEN atac_barcodes ELSE rna_barcodes

\* the dictionary the run looks barcodes up in, and the barcodes it looks up
LookupDict == IF rna_to_atac THEN rna_atac_dict ELSE atac_rna_dict

LookupBarcodes == IF rna_to_atac THEN rna_barcodes ELSE atac_barcodes

\* the set the list of line 165 / 170 is made from
OverlapSet == Range(TranslatedBarcodes) \cap Range(OtherBarcodes)

\* the lists whose elements are looked up with barcode_overlapped.index:
\* lines 166-167 (rna_to_atac) and lines 171-172.
RnaIndexed(ov) == IF rna_to_atac THEN ov ELSE rna_barcodes

AtacIndexed(ov) == IF rna_to_atac THEN atac_barcodes ELSE TranslatedBarcodes

RecordFirst(ov) ==
    first_overlapped' = IF run = 1 THEN {ov} ELSE first_overlapped

\* lines 163-172: translate, intersect, index
TranslateAndIndex ==
    /\ status = "running" /\ pc = "translate"
    /\ \/ \* no matrix was loaded: rna_barcodes / atac_barcodes is unbound
          /\ "genematrix" \notin bound
          /\ Raise("UnboundLocalError")
          /\ UNCHANGED <<bound, indices, first_overlapped>>
       \/ \* a barcode that is no key of the dictionary: d[i] raises KeyError
          /\ "genematrix" \in bound
          /\ \E i \in Range(LookupBarcodes) : i \notin DOMAIN LookupDict
          /\ Raise("KeyError")
          /\ UNCHANGED <<bound, indices, first_overlapped>>
       \/ /\ "genematrix" \in bound
          /\ \A i \in Range(LookupBarcodes) : i \in DOMAIN LookupDict
          /\ \E ov \in ListOfSet(OverlapSet) :
              /\ barcode_overlapped' = ov
              /\ RecordFirst(ov)
              /\ \/ \* list.index of an element that is not in the list
                    /\ \E i \in Range(RnaIndexed(ov)) \cup Range(AtacIndexed(ov)) :
                          i \notin Range(ov)
                    /\ Raise("ValueError")
                    /\ bound' = bound \cup {"barcode_overlapped"}
                    /\ UNCHANGED <<rna_barcode_idx, atac_barcode_idx>>
                 \/ /\ \A i \in Range(RnaIndexed(ov)) \cup Range(AtacIndexed(ov)) :
                          i \in Range(ov)
                    /\ rna_barcode_idx' = IndexAll(ov, RnaIndexed(ov))
                    /\ atac_barcode_idx' = IndexAll(ov, AtacIndexed(ov))
                    /\ bound' = bound \cup {"barcode_overlapped", "rna_barcode_idx",
                                            "atac_barcode_idx"}
                    /\ Goto("filter")
    /\ UNCHANGED <<inputs, dicts, filtered, filesystem, run>>

\* lines 174-175: index axis 0 of the two matrices with the index lists
FilterMatrices ==
    /\ status = "running" /\ pc = "filter"
    /\ \/ /\ ~(RowsInRange(genematrix, rna_barcode_idx)
               /\ RowsInRange(peakmatrix, atac_barcode_idx))
          /\ Raise("IndexError")
          /\ UNCHANGED <<bound, filtered>>
       \/ /\ RowsInRange(genematrix, rna_barcode_idx)
          /\ RowsInRange(peakmatrix, atac_barcode_idx)
          /\ genematrix_filtered' = SelectRows(genematrix, rna_barcode_idx)
          /\ peakmatrix_filtered' = SelectRows(peakmatrix, atac_barcode_idx)
          /\ bound' = bound \cup {"genematrix_filtered", "peakmatrix_filtered"}
          /\ Goto("stack")
    /\ UNCHANGED <<inputs, dicts, indices, filesystem, run,
                   first_overlapped>>

\* lines 176-179.  Line 176 reads the free names feature and passed_gene,
\* never bound in this file (NameError unless a star import binds them; its
\* result, passed_genes, is not used).  np.vstack of two arrays raises
\* ValueError when their column counts differ; for two scipy sparse
\* matrices it wraps each in an object array and does not look at the
\* shapes.  all_feature_matrix is not used afterwards: the three writes
\* are given the two filtered matrices.
StackMatrices ==
    /\ status = "running" /\ pc = "stack"
    /\ \/ Raise("NameError")
       \/ /\ Len(genematrix_filtered.cols) # Len(peakmatrix_filtered.cols)
          /\ Raise("ValueError")
       \/ Goto("write_gene")
    /\ UNCHANGED <<inputs, bound, dicts, indices, filtered, filesystem,
                   run, first_overlapped>>

\* a write call wrapped like os.makedirs is: the exception swallowed, the
\* run going on to the next statement
WriteFile_Swallow(at, suffix, next) ==
    /\ status = "running" /\ pc = at
    /\ \/ UNCHANGED <<files, written>>
       \/ /\ files' = files \cup {OutPath(suffix)}
          /\ written' = written \cup {OutPath(suffix)}
    /\ IF next = "done"
       THEN /\ status' = "done"
            /\ UNCHANGED <<pc, error>>
       ELSE Goto(next)
    /\ UNCHANGED <<inputs, bound, dicts, indices, filtered, dir_exists,
                   run, first_overlapped>>

\* one write call: the file is created (or replaced) at OutPath(suffix),
\* or the writer raises (the path cannot be written)
WriteFile(at, suffix, next) ==
    /\ status = "running" /\ pc = at
    /\ \/ /\ Raise("OSError")
          /\ UNCHANGED <<files, written>>
       \/ /\ files' = files \cup {OutPath(suffix)}
          /\ written' = written \cup {OutPath(suffix)}
          /\ IF next = "done"
             THEN /\ status' = "done"
                  /\ UNCHANGED <<pc, error>>
             ELSE Goto(next)
    /\ UNCHANGED <<inputs, bound, dicts, indices, filtered, dir_exists,
                   run, first_overlapped>>

\* line 181
WriteGene == WriteFile("write_gene", GeneFile, "write_peak")

\* line 182
WritePeak == WriteFile("write_peak", PeakFile, "write_feature")

\* lines 183-184
WriteFeature == WriteFile("write_feature", FeatureFile, "done")

\* barcodemap is called again with the same arguments and the same input
\* files; the file system is as the previous run left it.
NextRun ==
    /\ status \in {"failed", "done"}
    /\ run = 1
    /\ run' = run + 1
    /\ pc' = "makedirs"
    /\ status' = "running"
    /\ error' = "none"
    /\ bound' = {}
    /\ atac_rna_dict' = EmptyDict
    /\ rna_atac_dict' = EmptyDict
    /\ barcode_overlapped' = <<>>
    /\ rna_barcode_idx' = <<>>
    /\ atac_barcode_idx' = <<>>
    /\ genematrix_filtered' = EmptyMatrix
    /\ peakmatrix_filtered' = EmptyMatrix
    /\ written' = {}
    /\ UNCHANGED <<inputs, dir_exists, files, first_overlapped>>

Next ==
    \/ Makedirs
    \/ LoadMatrices
    \/ ReadLibs
    \/ TranslateAndIndex
    \/ FilterMatrices
    \/ StackMatrices
    \/ WriteGene
    \/ WritePeak
    \/ WriteFeature

Spec == Init /\ [][Next]_vars

\* two runs in sequence
NextTwoRuns ==
    \/ Next
    \/ NextRun

SpecTwoRuns == Init /\ [][NextTwoRuns]_vars

\* ===================================================================
\* Properties
\* ===================================================================

\* the cell a column of the loaded gene / peak matrix belongs to, named in
\* the vocabulary the run translates into
GeneColBarcode(j) ==
    IF rna_to_atac THEN rna_atac_dict[rna_barcodes[j]] ELSE rna_barcodes[j]

PeakColBarcode(j) ==
    IF rna_to_atac THEN atac_barcodes[j] ELSE atac_rna_dict[atac_barcodes[j]]

\* the matrices are loaded and the dictionaries built
Translating == {"genematrix", "atac_rna_dict"} \subseteq bound

\* every barcode the run looks up is a key of the dictionary it uses
AllMapped == \A i \in Range(LookupBarcodes) : i \in DOMAIN LookupDict

NoRepeat(s) == \A i, j \in DOMAIN s : s[i] = s[j] => i = j

ThreeOutputs ==
    {[dir |-> directory, prefix |-> outprefix, suffix |-> x] :
        x \in {GeneFile, PeakFile, FeatureFile}}

\* C1 (column alignment): when every looked-up barcode is in the library,
\* translation and filtering raise nothing; the filtered peak (gene) matrix
\* holds exactly the columns of the peak (gene) matrix whose barcode is in
\* the overlapping set; and for every k the k-th column of both filtered
\* matrices is the cell barcode_overlapped[k].
C1_ColumnAlignment ==
    (Translating /\ AllMapped) =>
        /\ ~(status = "failed" /\ pc \in {"translate", "filter"})
        /\ "peakmatrix_filtered" \in bound =>
            /\ Range(peakmatrix_filtered.cols) =
                  {j \in 1..Len(atac_barcodes) : PeakColBarcode(j) \in Range(barcode_overlapped)}
            /\ Range(genematrix_filtered.cols) =
                  {j \in 1..Len(rna_barcodes) : GeneColBarcode(j) \in Range(barcode_overlapped)}
            /\ Len(genematrix_filtered.cols) = Len(barcode_overlapped)
            /\ Len(peakmatrix_filtered.cols) = Len(barcode_overlapped)
            /\ \A k \in 1..Len(barcode_overlapped) :
                  /\ GeneColBarcode(genematrix_filtered.cols[k]) = barcode_overlapped[k]
                  /\ PeakColBarcode(peakmatrix_filtered.cols[k]) = barcode_overlapped[k]

\* C2 (unmapped-barcode failure): when a barcode of the translated matrix
\* is no key of the translation map, the run goes no further than the
\* translation and ends there failed with an Unmapped Barcode error.
C2_UnmappedBarcode ==
    (Translating /\ ~AllMapped) =>
        /\ pc = "translate"
        /\ status # "done"
        /\ status = "failed" => error = "UnmappedBarcode"

\* C3 (library length check): when the two library lists differ in length
\* no translation map is built, no later step is reached, and the run
\* fails where the map is built with a Malformed Input error (an OSError
\* or NameError there is a failure before the map is built).
C3_LibraryLengthCheck ==
    (Len(atac_barcode_lib_list) # Len(rna_barcode_lib_list)) =>
        /\ "atac_rna_dict" \notin bound
        /\ "rna_atac_dict" \notin bound
        /\ pc \in {"makedirs", "load", "readlibs"}
        /\ (pc = "readlibs" /\ status = "failed") =>
              error \in {"MalformedInput", "OSError", "NameError"}

\* C4 (one column per shared barcode): barcode_overlapped holds no barcode
\* twice, and each filtered matrix has exactly one column for each of its
\* barcodes.
C4_OneColumnPerBarcode ==
    /\ "barcode_overlapped" \in bound => NoRepeat(barcode_overlapped)
    /\ "peakmatrix_filtered" \in bound =>
        /\ Len(genematrix_filtered.cols) = Len(barcode_overlapped)
        /\ Len(peakmatrix_filtered.cols) = Len(barcode_overlapped)
        /\ \A b \in Range(barcode_overlapped) :
              /\ Cardinality({k \in DOMAIN genematrix_filtered.cols :
                     GeneColBarcode(genematrix_filtered.cols[k]) = b}) = 1
              /\ Cardinality({k \in DOMAIN peakmatrix_filtered.cols :
                     PeakColBarcode(peakmatrix_filtered.cols[k]) = b}) = 1

\* the matrix write_10X_h5_multiome is given the parts of (lines 183-184):
\* the rows of rna_matrix, then the rows of atac_matrix
CombinedMatrix ==
    [rows |-> [k \in 1..Len(genematrix_filtered.rows) |-> <<"rna", genematrix_filtered.rows[k]>>]
              \o [k \in 1..Len(peakmatrix_filtered.rows) |-> <<"atac", peakmatrix_filtered.rows[k]>>],
     cols |-> genematrix_filtered.cols]

\* C5 (stacking shape): filtering leaves the rows of both matrices as they
\* were, and on a successful run the combined matrix has the RNA features
\* then the ATAC features as its rows and one column per overlapping barcode.
C5_StackingShape ==
    /\ "peakmatrix_filtered" \in bound =>
        /\ genematrix_filtered.rows = genematrix.rows
        /\ peakmatrix_filtered.rows = peakmatrix.rows
    /\ status = "done" =>
        /\ Len(CombinedMatrix.rows) = n_rna_features + n_atac_features
        /\ CombinedMatrix.rows =
              [i \in 1..n_rna_features |-> <<"rna", i>>]
              \o [i \in 1..n_atac_features |-> <<"atac", i>>]
        /\ Len(CombinedMatrix.cols) = Len(barcode_overlapped)
        /\ Len(peakmatrix_filtered.cols) = Len(barcode_overlapped)

\* the pairing of the two library lists is one-to-one: two lines agree on
\* the ATAC side exactly when they agree on the RNA side
PairingOneToOne ==
    \A i, j \in DOMAIN atac_barcode_lib_list :
        (atac_barcode_lib_list[i] = atac_barcode_lib_list[j])
            <=> (rna_barcode_lib_list[i] = rna_barcode_lib_list[j])

\* ATAC -> RNA -> ATAC and RNA -> ATAC -> RNA are the identity on the
\* barcodes of the two library lists
RoundTrip ==
    /\ \A b \in Range(atac_barcode_lib_list) :
          /\ b \in DOMAIN atac_rna_dict
          /\ atac_rna_dict[b] \in DOMAIN rna_atac_dict
          /\ rna_atac_dict[atac_rna_dict[b]] = b
    /\ \A r \in Range(rna_barcode_lib_list) :
          /\ r \in DOMAIN rna_atac_dict
          /\ rna_atac_dict[r] \in DOMAIN atac_rna_dict
          /\ atac_rna_dict[rna_atac_dict[r]] = r

\* C6 as stated (round trip): for any two library lists of equal length
\* the two dictionaries are mutually inverse.
C6_RoundTripAnyLists ==
    ("atac_rna_dict" \in bound
        /\ Len(atac_barcode_lib_list) = Len(rna_barcode_lib_list)) => RoundTrip

\* C6 as amended: for two library lists of equal length whose positional
\* pairing is one-to-one, the two dictionaries are mutually inverse.
C6_RoundTrip ==
    ("atac_rna_dict" \in bound
        /\ Len(atac_barcode_lib_list) = Len(rna_barcode_lib_list)
        /\ PairingOneToOne) => RoundTrip

\* the two dictionaries are built from two-line libraries that pair two
\* different ATAC barcodes with two different RNA barcodes
C6_Witness ==
    /\ "atac_rna_dict" \in bound
    /\ Len(atac_barcode_lib_list) = Len(rna_barcode_lib_list)
    /\ PairingOneToOne
    /\ Cardinality(DOMAIN atac_rna_dict) = 2
    /\ Cardinality(DOMAIN rna_atac_dict) = 2

\* C7 (reproducible column order): the second run, on the same inputs,
\* computes barcode_overlapped in the order the first run computed it.
C7_ReproducibleOrder ==
    (run = 2 /\ "barcode_overlapped" \in bound /\ first_overlapped # {}) =>
        barcode_overlapped \in first_overlapped

\* what the steps before the one at p have written
WrittenBefore(p) ==
    CASE p = "write_peak" -> {OutPath(GeneFile)}
      [] p = "write_feature" -> {OutPath(GeneFile), OutPath(PeakFile)}
      [] OTHER -> {}

\* the locals that the steps after the one at p bind
BoundAfter(p) ==
    CASE p \in {"makedirs", "load"} ->
            {"atac_rna_dict", "rna_atac_dict", "barcode_overlapped", "rna_barcode_idx",
             "atac_barcode_idx", "genematrix_filtered", "peakmatrix_filtered"}
      [] p = "readlibs" ->
            {"barcode_overlapped", "rna_barcode_idx", "atac_barcode_idx",
             "genematrix_filtered", "peakmatrix_filtered"}
      [] p = "translate" -> {"genematrix_filtered", "peakmatrix_filtered"}
      [] OTHER -> {}

\* C8 (no partial success): a run is done only with all three files
\* written; a run in which a step raised is failed, none of the later
\* steps has run (nothing of theirs is bound or written), and the files
\* written before the failure are still there.
C8_NoPartialSuccess ==
    /\ status = "done" =>
          written = {OutPath(GeneFile), OutPath(PeakFile), OutPath(FeatureFile)}
    /\ (error # "none") <=> (status = "failed")
    /\ status = "failed" =>
        /\ pc # "makedirs"
        /\ written = WrittenBefore(pc)
        /\ bound \cap BoundAfter(pc) = {}
    /\ written \subseteq files

\* a run failed at the second or third write, the earlier files in place
C8_Witness ==
    /\ status = "failed"
    /\ pc = "write_feature"
    /\ written = {OutPath(GeneFile), OutPath(PeakFile)}
    /\ written \subseteq files

\* C9 (output location): every file written is one of the three output
\* paths inside the output directory.
C9_OutputLocation == files \subseteq ThreeOutputs

\* C10 (idempotent directory creation): the second run does not fail at
\* the directory preparation; a run whose directory could not be created
\* does not fail there either, and writes no output file.
C10_DirectoryCreation ==
    /\ status = "failed" => pc # "makedirs"
    /\ (pc # "makedirs" /\ ~dir_exists) => (written = {} /\ status # "done")
====
